---- MODULE Spec2Model ----
\* A model of the Konane board of src/src/lib/konane_board/board.rs:
\* the 36-cell board, its bounds-checked accessors get_piece and set_piece,
\* the two constructors create_empty and default, and the move generator
\* possible_moves with its four directional scans.
EXTENDS Integers, Sequences, FiniteSets, TLC

\* ---------------------------------------------------------------- bounds
\* Coordinates handed to the operations are drawn from 0..MaxCoord (usize is
\* unsigned, so there is no negative input); 6 and above are out of range.
MaxCoord == 6
\* At most MaxSets calls of set_piece are made on one board.
MaxSets == 1
\* set_piece writes in-range cells of row CrossAt or column CrossAt only
\* (and every out-of-range coordinate); queries go to every coordinate.
CrossAt == 2

\* ---------------------------------------------------------------- data
\* enum Piece { EMPTY, WHITE, BLACK }
EMPTY == "EMPTY"
WHITE == "WHITE"
BLACK == "BLACK"
Piece == {EMPTY, WHITE, BLACK}

\* Option<T>
None == [some |-> FALSE]
Some(x) == [some |-> TRUE, val |-> x]

\* points: [Piece; 36], indices 0..35
Indices == 0..35

\* `x as usize` of an isize: reduction modulo the word size. The word is
\* taken 16 bits wide (the narrowest usize Rust has); every value the scans
\* cast lies in 0..5, where the width makes no difference.
UsizeModulus == 65536
AsUsize(x) == x % UsizeModulus

\* ---------------------------------------------------------------- constructors
create_empty == [k \in Indices |-> EMPTY]

\* for i in (0..36).step_by(2) { points[i] = BLACK; points[i + 1] = WHITE; }
\* Variant: the colour pair is swapped on every other row.
RECURSIVE default_loop_rows(_, _)
default_loop_rows(b, i) ==
    IF i >= 36 THEN b
    ELSE LET first == IF (i \div 6) % 2 = 0 THEN BLACK ELSE WHITE
             second == IF first = BLACK THEN WHITE ELSE BLACK
         IN default_loop_rows([b EXCEPT ![i] = first, ![i + 1] = second], i + 2)

RECURSIVE default_loop(_, _)
default_loop(b, i) ==
    IF i >= 36 THEN b
    ELSE default_loop([b EXCEPT ![i] = BLACK, ![i + 1] = WHITE], i + 2)

default == default_loop(create_empty, 0)

\* ---------------------------------------------------------------- accessors
\* Variant: the range check is off by one.
get_piece_off_by_one(b, row, col) ==
    IF row >= 5 \/ col >= 5 THEN None ELSE Some(b[row * 6 + col])

get_piece(b, row, col) ==
    IF row > 5 \/ col > 5 THEN None ELSE Some(b[row * 6 + col])

\* set_piece returns the new board together with the returned Option.
\* Variant: the state written is returned instead of the prior one.
set_piece_returns_new(b, row, col, piece_type) ==
    LET got == get_piece(b, row, col)
    IN IF got.some
       THEN [points |-> [b EXCEPT ![row * 6 + col] = piece_type],
             ret |-> Some(piece_type)]
       ELSE [points |-> b, ret |-> None]

\* Variant: the write goes to index col * 6 + row.
set_piece_transposed(b, row, col, piece_type) ==
    LET got == get_piece(b, row, col)
    IN IF got.some
       THEN [points |-> [b EXCEPT ![col * 6 + row] = piece_type],
             ret |-> Some(got.val)]
       ELSE [points |-> b, ret |-> None]

set_piece(b, row, col, piece_type) ==
    LET got == get_piece(b, row, col)
    IN IF got.some
       THEN [points |-> [b EXCEPT ![row * 6 + col] = piece_type],
             ret |-> Some(got.val)]
       ELSE [points |-> b, ret |-> None]

\* ---------------------------------------------------------------- move generation
\* A scan carries the Vec `moves`, and two observations of its own run: the
\* number of loop iterations entered in the current direction, and the set
\* of coordinates it handed to get_piece.
ScanStart == [moves |-> <<>>, iters |-> 0, reads |-> {}]

\* One direction of the vertical scan: the body of
\* `for jump in (0..).step_by(2)` for a fixed step i, from iteration `jump` on.
\* Variant: the bounds check lets the landing row reach 6.
RECURSIVE scan_vertical_wide(_, _, _, _, _, _)
scan_vertical_wide(b, row, col, i, jump, st) ==
    LET from_row == row + i * jump
        entered == [st EXCEPT !.iters = @ + 1]
    IN IF from_row + i * 2 < 0 \/ from_row + i * 2 > 6
       THEN entered
       ELSE LET enemy_row == AsUsize(from_row + i)
                to_row == AsUsize(from_row + i * 2)
                enemy == get_piece(b, enemy_row, col)
                read1 == [entered EXCEPT !.reads = @ \cup {<<enemy_row, col>>}]
            IN IF ~enemy.some
               THEN scan_vertical_wide(b, row, col, i, jump + 2, read1)
               ELSE IF enemy.val = EMPTY
               THEN read1
               ELSE LET landing == get_piece(b, to_row, col)
                        read2 == [read1 EXCEPT
                                    !.reads = @ \cup {<<to_row, col>>},
                                    !.moves = IF landing.some /\ landing.val = EMPTY
                                              THEN Append(@, <<to_row, col>>)
                                              ELSE @]
                    IN scan_vertical_wide(b, row, col, i, jump + 2, read2)

\* Variant: a piece of the source cell's own state is not jumped.
RECURSIVE scan_vertical_hostile(_, _, _, _, _, _)
scan_vertical_hostile(b, row, col, i, jump, st) ==
    LET from_row == row + i * jump
        entered == [st EXCEPT !.iters = @ + 1]
    IN IF from_row + i * 2 < 0 \/ from_row + i * 2 > 5
       THEN entered
       ELSE LET enemy_row == AsUsize(from_row + i)
                to_row == AsUsize(from_row + i * 2)
                enemy == get_piece(b, enemy_row, col)
                read1 == [entered EXCEPT !.reads = @ \cup {<<enemy_row, col>>}]
            IN IF ~enemy.some
               THEN scan_vertical_hostile(b, row, col, i, jump + 2, read1)
               ELSE IF enemy.val = EMPTY \/ enemy.val = b[row * 6 + col]
               THEN read1
               ELSE LET landing == get_piece(b, to_row, col)
                        read2 == [read1 EXCEPT
                                    !.reads = @ \cup {<<to_row, col>>},
                                    !.moves = IF landing.some /\ landing.val = EMPTY
                                              THEN Append(@, <<to_row, col>>)
                                              ELSE @]
                    IN scan_vertical_hostile(b, row, col, i, jump + 2, read2)

RECURSIVE scan_vertical(_, _, _, _, _, _)
scan_vertical(b, row, col, i, jump, st) ==
    LET from_row == row + i * jump
        entered == [st EXCEPT !.iters = @ + 1]
    IN IF from_row + i * 2 < 0 \/ from_row + i * 2 > 5
       THEN entered                                          \* break
       ELSE LET enemy_row == AsUsize(from_row + i)
                to_row == AsUsize(from_row + i * 2)
                enemy == get_piece(b, enemy_row, col)
                read1 == [entered EXCEPT !.reads = @ \cup {<<enemy_row, col>>}]
            IN IF ~enemy.some
               THEN \* `if let Some(enemy)` does not match: next iteration
                    scan_vertical(b, row, col, i, jump + 2, read1)
               ELSE IF enemy.val = EMPTY
               THEN read1                                    \* break
               ELSE LET landing == get_piece(b, to_row, col)
                        read2 == [read1 EXCEPT
                                    !.reads = @ \cup {<<to_row, col>>},
                                    !.moves = IF landing.some /\ landing.val = EMPTY
                                              THEN Append(@, <<to_row, col>>)
                                              ELSE @]
                    IN scan_vertical(b, row, col, i, jump + 2, read2)

\* One direction of the horizontal scan.
\* Variant: the scan stops at an occupied landing cell.
RECURSIVE scan_horizontal_vacant_only(_, _, _, _, _, _)
scan_horizontal_vacant_only(b, row, col, i, jump, st) ==
    LET from_col == col + i * jump
        entered == [st EXCEPT !.iters = @ + 1]
    IN IF from_col + i * 2 < 0 \/ from_col + i * 2 > 5
       THEN entered
       ELSE LET enemy_col == AsUsize(from_col + i)
                to_col == AsUsize(from_col + i * 2)
                enemy == get_piece(b, row, enemy_col)
                read1 == [entered EXCEPT !.reads = @ \cup {<<row, enemy_col>>}]
            IN IF ~enemy.some
               THEN scan_horizontal_vacant_only(b, row, col, i, jump + 2, read1)
               ELSE IF enemy.val = EMPTY
               THEN read1
               ELSE LET landing == get_piece(b, row, to_col)
                        read2 == [read1 EXCEPT !.reads = @ \cup {<<row, to_col>>}]
                    IN IF landing.some /\ landing.val = EMPTY
                       THEN scan_horizontal_vacant_only(b, row, col, i, jump + 2,
                                [read2 EXCEPT !.moves = Append(@, <<row, to_col>>)])
                       ELSE read2

RECURSIVE scan_horizontal(_, _, _, _, _, _)
scan_horizontal(b, row, col, i, jump, st) ==
    LET from_col == col + i * jump
        entered == [st EXCEPT !.iters = @ + 1]
    IN IF from_col + i * 2 < 0 \/ from_col + i * 2 > 5
       THEN entered                                          \* break
       ELSE LET enemy_col == AsUsize(from_col + i)
                to_col == AsUsize(from_col + i * 2)
                enemy == get_piece(b, row, enemy_col)
                read1 == [entered EXCEPT !.reads = @ \cup {<<row, enemy_col>>}]
            IN IF ~enemy.some
               THEN scan_horizontal(b, row, col, i, jump + 2, read1)
               ELSE IF enemy.val = EMPTY
               THEN read1                                    \* break
               ELSE LET landing == get_piece(b, row, to_col)
                        read2 == [read1 EXCEPT
                                    !.reads = @ \cup {<<row, to_col>>},
                                    !.moves = IF landing.some /\ landing.val = EMPTY
                                              THEN Append(@, <<row, to_col>>)
                                              ELSE @]
                    IN scan_horizontal(b, row, col, i, jump + 2, read2)

\* A whole call of possible_moves: the returned Option, the board the call
\* leaves behind (the receiver is &self and no statement assigns to
\* self.points), the iterations of the four scans in the order they run
\* (up, down, left, right) and the coordinates they read.
\* Variant: the call moves the source's state to the first destination.
possible_moves_run_capturing(b, row, col) ==
    IF ~get_piece(b, row, col).some
    THEN [ret |-> None, points |-> b, iters |-> <<>>, reads |-> {}]
    ELSE LET up == scan_vertical(b, row, col, -1, 0, ScanStart)
             down == scan_vertical(b, row, col, 1, 0, [up EXCEPT !.iters = 0])
             left == scan_horizontal(b, row, col, -1, 0, [down EXCEPT !.iters = 0])
             right == scan_horizontal(b, row, col, 1, 0, [left EXCEPT !.iters = 0])
         IN [ret |-> Some(right.moves),
             points |-> IF right.moves = <<>>
                        THEN b
                        ELSE [b EXCEPT ![right.moves[1][1] * 6 + right.moves[1][2]] =
                                           b[row * 6 + col]],
             iters |-> <<up.iters, down.iters, left.iters, right.iters>>,
             reads |-> right.reads]

possible_moves_run(b, row, col) ==
    IF ~get_piece(b, row, col).some
    THEN [ret |-> None, points |-> b, iters |-> <<>>, reads |-> {}]
    ELSE LET up == scan_vertical(b, row, col, -1, 0, ScanStart)
             down == scan_vertical(b, row, col, 1, 0, [up EXCEPT !.iters = 0])
             left == scan_horizontal(b, row, col, -1, 0, [down EXCEPT !.iters = 0])
             right == scan_horizontal(b, row, col, 1, 0, [left EXCEPT !.iters = 0])
         IN [ret |-> Some(right.moves),
             points |-> b,
             iters |-> <<up.iters, down.iters, left.iters, right.iters>>,
             reads |-> right.reads]

possible_moves(b, row, col) == possible_moves_run(b, row, col).ret

\* ---------------------------------------------------------------- state
VARIABLES
    points,     \* Board.points
    op,         \* the operation that ran last
    ret,        \* what it returned
    nsets,      \* number of set_piece calls made so far
    written     \* per cell, the state last written by an in-range set_piece
                \* (the state at construction if there was none)

vars == <<points, op, ret, nsets, written>>

Coord == 0..MaxCoord
InRange(row, col) == row <= 5 /\ col <= 5
OnCross(row, col) == ~InRange(row, col) \/ row = CrossAt \/ col = CrossAt

Init ==
    /\ \/ points = create_empty /\ op = "create_empty"
       \/ points = default /\ op = "default"
    /\ ret = None
    /\ nsets = 0
    /\ written = points

SetPiece(row, col, piece_type) ==
    /\ nsets < MaxSets
    /\ OnCross(row, col)
    /\ LET res == set_piece(points, row, col, piece_type)
       IN /\ points' = res.points
          /\ ret' = res.ret
    /\ op' = "set_piece"
    /\ nsets' = nsets + 1
    /\ written' = IF InRange(row, col)
                  THEN [written EXCEPT ![row * 6 + col] = piece_type]
                  ELSE written

GetPiece(row, col) ==
    /\ ret' = get_piece(points, row, col)
    /\ op' = "get_piece"
    /\ UNCHANGED <<points, nsets, written>>

PossibleMoves(row, col) ==
    /\ LET run == possible_moves_run(points, row, col)
       IN /\ points' = run.points
          /\ ret' = run.ret
    /\ op' = "possible_moves"
    /\ UNCHANGED <<nsets, written>>

Next ==
    \/ \E row \in Coord, col \in Coord, piece_type \in Piece :
          SetPiece(row, col, piece_type)
    \/ \E row \in Coord, col \in Coord : GetPiece(row, col)
    \/ \E row \in Coord, col \in Coord : PossibleMoves(row, col)

Spec == Init /\ [][Next]_vars

\* ---------------------------------------------------------------- vocabulary of the claims
Rows == 0..5
Cols == 0..5
InRangeCells == Rows \X Cols
Dirs == {<<-1, 0>>, <<1, 0>>, <<0, -1>>, <<0, 1>>}

Elements(seq) == {seq[k] : k \in 1..Len(seq)}
NoDuplicates(seq) == \A j, k \in 1..Len(seq) : j # k => seq[j] # seq[k]

\* The cell at distance k from (row, col) in direction dir, and its content.
CellAt(row, col, dir, k) == <<row + dir[1] * k, col + dir[2] * k>>
Inside(cell) == cell \in InRangeCells
Content(b, cell) == b[cell[1] * 6 + cell[2]]

\* Cells at an even distance d in {2, 4}, inside the board, Empty, with every
\* cell at an odd distance below d non-Empty.
JumpTargets(b, row, col) ==
    {CellAt(row, col, x[1], x[2]) : x \in
        {y \in Dirs \X {2, 4} :
            /\ Inside(CellAt(row, col, y[1], y[2]))
            /\ Content(b, CellAt(row, col, y[1], y[2])) = EMPTY
            /\ \A k \in 1..(y[2] - 1) :
                  k % 2 = 1 => Content(b, CellAt(row, col, y[1], k)) # EMPTY}}

\* Cells reached by a chain of capturing jumps in one direction: as above,
\* and every landing cell of the chain (even distances up to d) is Empty.
ChainTargets(b, row, col) ==
    {CellAt(row, col, x[1], x[2]) : x \in
        {y \in Dirs \X {2, 4} :
            /\ Inside(CellAt(row, col, y[1], y[2]))
            /\ \A k \in 1..y[2] :
                  IF k % 2 = 1
                  THEN Content(b, CellAt(row, col, y[1], k)) # EMPTY
                  ELSE Content(b, CellAt(row, col, y[1], k)) = EMPTY}}

\* The board that keeps of b only which cells are Empty: every piece is
\* Black and the source cell is Empty. Two boards that agree off the source
\* on which cells are Empty have the same Canon.
Canon(b, row, col) ==
    [k \in Indices |->
        IF k = row * 6 + col \/ b[k] = EMPTY THEN EMPTY ELSE BLACK]

C2_MovesAreChainTargets ==
    \A row \in Rows, col \in Cols :
        Elements(possible_moves(points, row, col).val) = ChainTargets(points, row, col)

\* C3: get_piece, set_piece and possible_moves return None exactly when
\* row > 5 or col > 5, and Some otherwise (also for an Empty source).
C3_NoneIffOutOfRange ==
    \A row \in Coord, col \in Coord :
        /\ get_piece(points, row, col).some <=> (row <= 5 /\ col <= 5)
        /\ possible_moves(points, row, col).some <=> (row <= 5 /\ col <= 5)
        /\ \A s \in Piece :
              set_piece(points, row, col, s).ret.some <=> (row <= 5 /\ col <= 5)

\* After a set_piece, possible_moves was called out of range and returned None,
\* while an Empty in-range source gets Some.
C3_Witness ==
    /\ op = "possible_moves"
    /\ ~ret.some
    /\ nsets > 0
    /\ \E row \in Rows, col \in Cols :
          Content(points, <<row, col>>) = EMPTY /\ possible_moves(points, row, col).some

\* C4: an in-range set_piece returns what get_piece returned just before,
\* and get_piece just after returns the state written.
C4_SetReturnsPriorGetReturnsNew ==
    \A row \in Rows, col \in Cols, s \in Piece :
        LET res == set_piece(points, row, col, s)
        IN /\ res.ret = get_piece(points, row, col)
           /\ get_piece(res.points, row, col) = Some(s)

\* A set_piece has overwritten a piece with another state and returned it.
C4_Witness ==
    /\ op = "set_piece"
    /\ ret.some
    /\ ret.val # EMPTY
    /\ \E row \in Rows, col \in Cols :
          /\ written[row * 6 + col] # ret.val
          /\ get_piece(points, row, col) = Some(written[row * 6 + col])
          /\ written[row * 6 + col] # default[row * 6 + col]

C6_DefaultIsCheckerboard ==
    op = "default" =>
        \A row \in Rows, col \in Cols :
            /\ Content(points, <<row, col>>) # EMPTY
            /\ col < 5 => Content(points, <<row, col>>) # Content(points, <<row, col + 1>>)
            /\ row < 5 => Content(points, <<row, col>>) # Content(points, <<row + 1, col>>)

\* C7: on the default board every cell of an even column is Black and every
\* cell of an odd column White; on the create_empty board every cell is Empty.
C7_InitialBoards ==
    /\ op = "default" =>
          \A row \in Rows, col \in Cols :
              get_piece(points, row, col) = Some(IF col % 2 = 0 THEN BLACK ELSE WHITE)
    /\ op = "create_empty" =>
          \A row \in Rows, col \in Cols : get_piece(points, row, col) = Some(EMPTY)

\* The board just built by default().
C7_Witness ==
    /\ op = "default"
    /\ get_piece(points, 0, 0) = Some(BLACK)
    /\ get_piece(points, 0, 1) = Some(WHITE)

\* C8: possible_moves gives the same sequence on the board and on any board
\* that agrees with it, off the source cell, on which cells are Empty.
C8_ColourBlind ==
    \A row \in Rows, col \in Cols :
        possible_moves(points, row, col) = possible_moves(Canon(points, row, col), row, col)

\* A possible_moves call has returned a jump over a piece of the source's
\* own colour.
C8_Witness ==
    /\ op = "possible_moves"
    /\ ret.some
    /\ \E row \in Rows, col \in Cols, dir \in Dirs :
          /\ ret = possible_moves(points, row, col)
          /\ Inside(CellAt(row, col, dir, 2))
          /\ CellAt(row, col, dir, 2) \in Elements(ret.val)
          /\ Content(points, <<row, col>>) # EMPTY
          /\ Content(points, CellAt(row, col, dir, 1)) = Content(points, <<row, col>>)

C10_ScansBounded ==
    \A row \in Rows, col \in Cols :
        LET run == possible_moves_run(points, row, col)
        IN /\ run.ret.some
           /\ Len(run.iters) = 4
           /\ \A k \in 1..4 : run.iters[k] <= 3
           /\ run.reads \subseteq InRangeCells

\* A possible_moves call whose scan went through 3 iterations has returned.
C10_Witness ==
    /\ op = "possible_moves"
    /\ ret.some
    /\ \E row \in Rows, col \in Cols :
          /\ ret = possible_moves(points, row, col)
          /\ \E k \in 1..4 : possible_moves_run(points, row, col).iters[k] = 3
          /\ ret.val # <<>>

====
